---- MODULE Spec2Model ----
(***************************************************************************)
(* PromptLint: the prompt-refactoring request/response protocol of         *)
(* LLMService.refactorPrompt (src/src/services/llm.ts) and its error       *)
(* taxonomy.                                                               *)
(*                                                                         *)
(* A string is a sequence of pieces: a piece is one character ("a", " ",   *)
(* "\"") or a fixed run of text of the source that never needs to be       *)
(* split ("Rate limit exceeded. Please try again ").  Concatenation of JS  *)
(* strings and template literals is \o, String.prototype.includes is       *)
(* Includes, String.prototype.trim is Trim.                                *)
(***************************************************************************)
EXTENDS Integers, Sequences, FiniteSets, TLC

\* ------------------------------------------------------------------ bounds
\* Longest raw prompt the callers pass (in characters).
MaxPromptLen == 2
\* Most refactorPrompt calls in flight at once.
MaxCalls == 2
\* Most webview panels created in a run.
MaxPanels == 2
\* Most messages waiting in a webview when its Refactor button is clicked.
MaxPending == 1

\* ----------------------------------------------------------------- strings
WhiteSpace == {" ", "\n", "\t"}

RECURSIVE TrimStart(_)
TrimStart(s) ==
    IF s = <<>> THEN s
    ELSE IF Head(s) \in WhiteSpace THEN TrimStart(Tail(s)) ELSE s

RECURSIVE TrimEnd(_)
TrimEnd(s) ==
    IF s = <<>> THEN s
    ELSE IF s[Len(s)] \in WhiteSpace THEN TrimEnd(SubSeq(s, 1, Len(s) - 1)) ELSE s

\* String.prototype.trim
Trim(s) == TrimEnd(TrimStart(s))

\* String.prototype.includes
Includes(s, sub) ==
    \E i \in 1..(Len(s) - Len(sub) + 1) : SubSeq(s, i, i + Len(sub) - 1) = sub

DigitChars == <<"0", "1", "2", "3", "4", "5", "6", "7", "8", "9">>

\* `${n}` for a non-negative integer n
RECURSIVE NumToStr(_)
NumToStr(n) ==
    IF n < 10 THEN <<DigitChars[n + 1]>>
    ELSE NumToStr(n \div 10) \o <<DigitChars[(n % 10) + 1]>>

\* JSON.stringify of one character of a string
EscapeChar(c) ==
    CASE c = "\"" -> <<"\\", "\"">>
      [] c = "\\" -> <<"\\", "\\">>
      [] c = "\n" -> <<"\\", "n">>
      [] c = "\t" -> <<"\\", "t">>
      [] OTHER -> <<c>>

RECURSIVE EscapeChars(_)
EscapeChars(s) ==
    IF s = <<>> THEN <<>> ELSE EscapeChar(Head(s)) \o EscapeChars(Tail(s))

\* JSON.stringify of a string value: quoted and escaped
JsonString(s) == <<"\"">> \o EscapeChars(s) \o <<"\"">>

\* -------------------------------------------------------- program constants
SYSTEM_PROMPT == <<"You are an expert prompt engineer ... Just output the improved, ready-to-use prompt.">>

DefaultEndpoint == <<"https://api.openai.com/v1/chat/completions">>
DefaultModel == <<"gpt-4">>
DefaultMaxTokens == 2048
\* temperature: 0.7, in tenths
TemperatureTenths == 7

ErrorCodes == {"NO_API_KEY", "API_ERROR", "RATE_LIMIT", "INVALID_RESPONSE", "NETWORK_ERROR"}

\* ------------------------------------------------------------------ errors
\* A thrown value: cls is the class of the thrown object ("NonError" for a
\* thrown value that is no Error), code the LLMError code ("" otherwise).
LLMError(message, code) == [cls |-> "LLMError", code |-> code, message |-> message]
Foreign(cls, message) == [cls |-> cls, code |-> "", message |-> message]
NoError == [cls |-> "", code |-> "", message |-> <<>>]

NoKeyMessage == <<"No API key configured. Please set your API key in Settings > Extensions > PromptLint.">>
InvalidKeyMessage == <<"Invalid API key. Please check your API key in Settings > Extensions > PromptLint.">>
NoContentMessage == <<"Invalid response from API: No content in response">>
NetworkMessage == <<"Network error: Unable to connect to the API. Please check your internet connection.">>

\* What a call did: returned a value, or threw an error
Returned(v) == [kind |-> "return", value |-> v, error |-> NoError]
Threw(e) == [kind |-> "throw", value |-> <<>>, error |-> e]
Pending == [kind |-> "none", value |-> <<>>, error |-> NoError]

\* ---------------------------------------------------------------- settings
\* A setting of the host: unset, or set to a value
Unset == [set |-> FALSE, v |-> <<>>]
SetTo(v) == [set |-> TRUE, v |-> v]
UnsetNum == [set |-> FALSE, v |-> 0]

\* WorkspaceConfiguration.get(key, defaultValue)
ConfigGet(setting, defaultValue) == IF setting.set THEN setting.v ELSE defaultValue

\* The settings the host can hold
SettingsSet ==
    { [apiKey |-> Unset, apiEndpoint |-> Unset, model |-> Unset, maxTokens |-> UnsetNum],
      [apiKey |-> SetTo(<<" ", "\t">>), apiEndpoint |-> Unset, model |-> Unset, maxTokens |-> UnsetNum],
      [apiKey |-> SetTo(<<"s", "k">>), apiEndpoint |-> Unset, model |-> Unset, maxTokens |-> UnsetNum],
      [apiKey |-> SetTo(<<" ", "k", " ">>), apiEndpoint |-> SetTo(<<"https://llm.example/v1">>),
       model |-> SetTo(<<"m2">>), maxTokens |-> [set |-> TRUE, v |-> 256]] }

GetConfig(s) ==
    [apiKey |-> ConfigGet(s.apiKey, <<>>),
     apiEndpoint |-> ConfigGet(s.apiEndpoint, DefaultEndpoint),
     model |-> ConfigGet(s.model, DefaultModel),
     maxTokens |-> ConfigGet(s.maxTokens, DefaultMaxTokens)]

NoConfig == [apiKey |-> <<>>, apiEndpoint |-> <<>>, model |-> <<>>, maxTokens |-> 0]

\* KeyMissing without the trim: only the empty key is missing
KeyMissingEmptyOnly(apiKey) == apiKey = <<>>

\* validateApiKey: the condition under which it throws
KeyMissing(apiKey) == apiKey = <<>> \/ Trim(apiKey) = <<>>

\* ----------------------------------------------------------------- request
\* RequestBody with the user's text trimmed before it is sent
RequestBodyTrimmed(cfg, raw) ==
    [model |-> cfg.model,
     messages |-> << [role |-> "system", content |-> SYSTEM_PROMPT],
                     [role |-> "user", content |-> Trim(raw)] >>,
     max_tokens |-> cfg.maxTokens,
     temperature |-> TemperatureTenths]

\* The requestBody object refactorPrompt builds
RequestBody(cfg, raw) ==
    [model |-> cfg.model,
     messages |-> << [role |-> "system", content |-> SYSTEM_PROMPT],
                     [role |-> "user", content |-> raw] >>,
     max_tokens |-> cfg.maxTokens,
     temperature |-> TemperatureTenths]

\* JSON.stringify(requestBody): every string value goes out quoted and escaped
JsonStringify(b) ==
    [model |-> JsonString(b.model),
     messages |-> [i \in DOMAIN b.messages |->
                     [role |-> b.messages[i].role,
                      content |-> JsonString(b.messages[i].content)]],
     max_tokens |-> b.max_tokens,
     temperature |-> b.temperature]

\* The arguments of the fetch call
FetchRequest(cfg, raw) ==
    [url |-> cfg.apiEndpoint,
     method |-> "POST",
     contentType |-> "application/json",
     authorization |-> <<"Bearer ">> \o cfg.apiKey,
     body |-> JsonStringify(RequestBody(cfg, raw))]

\* ---------------------------------------------------------------- response
\* response.headers.get('retry-after'): null, or the header's value
NoHeader == [present |-> FALSE, v |-> <<>>]
Header(v) == [present |-> TRUE, v |-> v]
\* truthiness of what headers.get returned
HeaderTruthy(h) == h.present /\ h.v # <<>>

\* response.ok
Ok(status) == status >= 200 /\ status <= 299

NoResponse == [status |-> 0, retryAfter |-> NoHeader]

\* Parsed JSON: choices[i].message.content
CAbsent == [t |-> "absent", v |-> <<>>]
CNull == [t |-> "null", v |-> <<>>]
CStr(s) == [t |-> "str", v |-> s]
\* a value that is neither a string nor falsy (an array of content parts)
COther == [t |-> "other", v |-> <<>>]

\* choices[i].message
MAbsent == [t |-> "absent", content |-> CAbsent]
MNull == [t |-> "null", content |-> CAbsent]
MObj(c) == [t |-> "obj", content |-> c]

\* choices[i]
INull == [t |-> "null", message |-> MAbsent]
IObj(m) == [t |-> "obj", message |-> m]
Choice(c) == IObj(MObj(c))

\* data.choices
ChAbsent == [t |-> "absent", items |-> <<>>]
ChNull == [t |-> "null", items |-> <<>>]
ChArray(items) == [t |-> "array", items |-> items]

\* data.error
EAbsent == [t |-> "absent", hasMessage |-> FALSE, message |-> <<>>]
ENull == [t |-> "null", hasMessage |-> FALSE, message |-> <<>>]
EObj(m) == [t |-> "obj", hasMessage |-> TRUE, message |-> m]
EObjNoMessage == [t |-> "obj", hasMessage |-> FALSE, message |-> <<>>]

\* what response.json() yields: a SyntaxError ("invalid"), null, a primitive
\* (number, string, boolean) or an object
JInvalid == [t |-> "invalid", error |-> EAbsent, choices |-> ChAbsent]
JNull == [t |-> "null", error |-> EAbsent, choices |-> ChAbsent]
JPrim == [t |-> "prim", error |-> EAbsent, choices |-> ChAbsent]
JObj(e, ch) == [t |-> "obj", error |-> e, choices |-> ch]

\* A body: reading it fails with exc, or it has a text and that text's parse
BodyFails(e) == [readFails |-> TRUE, exc |-> e, text |-> <<>>, json |-> JInvalid]
BodyOf(text, json) == [readFails |-> FALSE, exc |-> NoError, text |-> text, json |-> json]
NoBody == BodyOf(<<>>, JInvalid)

\* FirstContent that reads the last choice
LastContent(data) ==
    IF data.t # "obj" THEN CAbsent
    ELSE IF data.choices.t # "array" THEN CAbsent
    ELSE IF data.choices.items = <<>> THEN CAbsent
    ELSE LET item == data.choices.items[Len(data.choices.items)] IN
         IF item.t # "obj" THEN CAbsent
         ELSE IF item.message.t # "obj" THEN CAbsent
         ELSE item.message.content

\* data.choices?.[0]?.message?.content
FirstContent(data) ==
    IF data.t # "obj" THEN CAbsent
    ELSE IF data.choices.t # "array" THEN CAbsent
    ELSE IF data.choices.items = <<>> THEN CAbsent
    ELSE LET item == data.choices.items[1] IN
         IF item.t # "obj" THEN CAbsent
         ELSE IF item.message.t # "obj" THEN CAbsent
         ELSE item.message.content

\* !refactoredPrompt
Falsy(c) == c.t \in {"absent", "null"} \/ (c.t = "str" /\ c.v = <<>>)

\* RateLimitMessage that inserts whatever headers.get returned once the header
\* is there
RateLimitMessageIfPresent(retryAfter) ==
    <<"Rate limit exceeded. Please try again ">>
    \o (IF retryAfter.present THEN <<"in ">> \o retryAfter.v \o <<" seconds">>
        ELSE <<"later">>)
    \o <<".">>

\* the message of the 429 error
RateLimitMessage(retryAfter) ==
    <<"Rate limit exceeded. Please try again ">>
    \o (IF HeaderTruthy(retryAfter) THEN <<"in ">> \o retryAfter.v \o <<" seconds">>
        ELSE <<"later">>)
    \o <<".">>

\* StatusStage that reports a rejected key with the words of a missing key
StatusStageSameMessage(resp) ==
    IF resp.status = 429 THEN LLMError(RateLimitMessage(resp.retryAfter), "RATE_LIMIT")
    ELSE IF resp.status = 401 THEN LLMError(NoKeyMessage, "NO_API_KEY")
    ELSE NoError

\* The checks refactorPrompt makes once fetch has resolved, before any read of
\* the body: what they throw, or NoError when the body is read next
StatusStage(resp) ==
    IF resp.status = 429 THEN LLMError(RateLimitMessage(resp.retryAfter), "RATE_LIMIT")
    ELSE IF resp.status = 401 THEN LLMError(InvalidKeyMessage, "NO_API_KEY")
    ELSE NoError

\* HttpError without the body text
HttpErrorNoBody(status, errorBody) ==
    LLMError(<<"API request failed (">> \o NumToStr(status) \o <<")">>, "API_ERROR")

\* the error of a response that is not ok
HttpError(status, errorBody) ==
    LLMError(<<"API request failed (">> \o NumToStr(status) \o <<"): ">> \o errorBody,
             "API_ERROR")

\* HasEmbeddedError that lets a body with content through
HasEmbeddedErrorUnlessContent(data) ==
    data.error.t = "obj" /\ Falsy(FirstContent(data))

\* if (data.error), for data that is not null
HasEmbeddedError(data) == data.error.t = "obj"

\* the error of a 2xx body that holds an error object
EmbeddedError(err) ==
    LLMError(<<"API error: ">> \o (IF err.hasMessage THEN err.message ELSE <<"undefined">>),
             "API_ERROR")

\* The rest of the try block, from the read of the body on: what it returns
\* or throws
BodyStage(resp, b) ==
    IF ~Ok(resp.status) THEN
        IF b.readFails THEN Threw(b.exc) ELSE Threw(HttpError(resp.status, b.text))
    ELSE IF b.readFails THEN Threw(b.exc)
    ELSE IF b.json.t = "invalid" THEN
        Threw(Foreign("SyntaxError", <<"Unexpected token in JSON">>))
    ELSE IF b.json.t = "null" THEN
        Threw(Foreign("TypeError", <<"Cannot read properties of null (reading 'error')">>))
    ELSE IF HasEmbeddedError(b.json) THEN Threw(EmbeddedError(b.json.error))
    ELSE LET refactoredPrompt == FirstContent(b.json) IN
         IF Falsy(refactoredPrompt) THEN
             Threw(LLMError(NoContentMessage, "INVALID_RESPONSE"))
         ELSE IF refactoredPrompt.t = "str" THEN Returned(Trim(refactoredPrompt.v))
         ELSE Threw(Foreign("TypeError", <<"refactoredPrompt.trim is not a function">>))

\* Catch that wraps every error it sees, classified or not
CatchWrapAll(error) ==
    IF error.cls = "TypeError" /\ Includes(error.message, <<"fetch">>) THEN
        LLMError(NetworkMessage, "NETWORK_ERROR")
    ELSE LLMError(<<"Unexpected error: ">> \o error.message, "API_ERROR")

\* Catch that rethrows what it does not recognise
CatchRethrow(error) ==
    IF error.cls = "LLMError" THEN error
    ELSE IF error.cls = "TypeError" /\ Includes(error.message, <<"fetch">>) THEN
        LLMError(NetworkMessage, "NETWORK_ERROR")
    ELSE error

\* The catch block: the error that leaves refactorPrompt for an error thrown
\* inside the try block.  The message field of a thrown value that is no
\* Error holds String(error).
Catch(error) ==
    IF error.cls = "LLMError" THEN error
    ELSE IF error.cls = "TypeError" /\ Includes(error.message, <<"fetch">>) THEN
        LLMError(NetworkMessage, "NETWORK_ERROR")
    ELSE LLMError(<<"Unexpected error: ">> \o error.message, "API_ERROR")

\* ------------------------------------------------------------------ inputs
PromptChars == {"a", " ", "\"", "\\"}

\* The raw prompts a caller passes: every string of at most MaxPromptLen
\* characters
RawPrompts == UNION { [1..n -> PromptChars] : n \in 0..MaxPromptLen }

Statuses == {200, 299, 300, 401, 429, 500}

RetryAfters == {NoHeader, Header(<<>>), Header(<<"3", "0">>)}

Responses == [status : Statuses, retryAfter : RetryAfters]

\* What fetch, response.text() and response.json() reject with when the
\* exchange fails: a TypeError that mentions fetch, a TypeError that does
\* not, an Error of another class that mentions fetch, a thrown string
Rejections ==
    { Foreign("TypeError", <<"fetch", " failed">>),
      Foreign("TypeError", <<"terminated">>),
      Foreign("Error", <<"request to endpoint failed: ", "fetch", " aborted">>),
      Foreign("NonError", <<"timeout">>) }

ImprovedText == <<" ", " ", "Improved text", " ", " ">>

ChoicesSet ==
    { ChAbsent, ChNull, ChArray(<<>>), ChArray(<<INull>>),
      ChArray(<<IObj(MAbsent)>>), ChArray(<<IObj(MNull)>>),
      ChArray(<<Choice(CAbsent)>>), ChArray(<<Choice(CNull)>>),
      ChArray(<<Choice(CStr(<<>>))>>), ChArray(<<Choice(CStr(<<" ", "\n">>))>>),
      ChArray(<<Choice(CStr(ImprovedText))>>), ChArray(<<Choice(COther)>>),
      ChArray(<<Choice(CStr(<<>>)), Choice(CStr(<<"second">>))>>),
      ChArray(<<Choice(CStr(<<"first", " ">>)), Choice(CStr(<<"second">>))>>),
      ChArray(<<INull, Choice(CStr(<<"second">>))>>) }

JsonValues ==
    {JNull, JPrim}
    \cup { JObj(e, ch) : e \in {EAbsent, ENull}, ch \in ChoicesSet }
    \cup { JObj(e, ch) : e \in {EObj(<<"boom">>), EObjNoMessage},
                         ch \in {ChAbsent, ChArray(<<Choice(CStr(ImprovedText))>>)} }

Bodies ==
    { BodyFails(e) : e \in Rejections }
    \cup { BodyOf(t, JInvalid) : t \in {<<>>, <<"server exploded">>} }
    \cup { BodyOf(<<"{json}">>, j) : j \in JsonValues }

\* ------------------------------------------------------------------- state
VARIABLES
    settings,   \* the host's promptlint settings
    pc,         \* where the refactorPrompt call is: idle, fetch, body, done
    config,     \* the call's config (getConfig's result)
    rawPrompt,  \* the call's argument
    sent,       \* the fetch requests the call has issued
    response,   \* what fetch resolved with
    body,       \* what the read of the response's body gave
    raised,     \* the value thrown inside the try block (NoError if none)
    outcome     \* what the call returned or threw to its caller

\* The host around the service: refactorPrompt is async, so several calls can
\* be in flight at once
VARIABLES
    calls,        \* the concurrent refactorPrompt calls, by call id
    currentPanel, \* PromptLintPanel.currentPanel: a panel id, 0 for undefined
    created,      \* how many webview panels createWebviewPanel has made
    instances,    \* the PromptLintPanel objects constructed and not disposed
    open,         \* the webview panels the user has not closed
    revealed,     \* the panel panel.reveal was last called on, 0 for none
    btnDisabled,  \* refactorBtn.disabled, by panel
    inbox,        \* the messages posted to a webview and not yet handled by it
    handlers,     \* the handleRefactor invocations, by the id of their call
    cmd,          \* the run of the command promptlint.refactorPrompt
    editor,       \* vscode.window.activeTextEditor and the text of its selection
    notes,        \* the messages the command's run has shown, in order
    outputs       \* the output actions the command's run has performed, in order

CallIds == 1..MaxCalls
PanelIds == 1..MaxPanels

\* The messages the panel posts to its webview
LoadingMsg(b) == [command |-> "loading", isLoading |-> b, text |-> <<>>, showSettings |-> FALSE]
ResultMsg(t) == [command |-> "result", isLoading |-> FALSE, text |-> t, showSettings |-> FALSE]
ErrorMsg(t, s) == [command |-> "error", isLoading |-> FALSE, text |-> t, showSettings |-> s]

\* A handleRefactor invocation: free (none), queued (the webview's message is
\* on its way), awaiting (in refactorPrompt), finished
FreeHandler ==
    [pc |-> "free", panel |-> 0, text |-> <<>>, posted |-> <<>>,
     outcome |-> Pending, escaped |-> NoError]

\* A call that has not started: the locals of refactorPrompt
IdleCall ==
    [pc |-> "idle", raw |-> <<>>, config |-> NoConfig, sent |-> <<>>,
     response |-> NoResponse, body |-> NoBody, raised |-> NoError, outcome |-> Pending]

\* A notification of the host: its level, text and buttons
Note(level, text, actions) == [level |-> level, text |-> text, actions |-> actions]

\* The run of handleRefactorSelectedPrompt: idle (none, or the last one is
\* over), awaiting (in refactorPrompt), dialog (the three options are
\* offered), confirm (the modal confirmation is open)
IdleCmd ==
    [pc |-> "idle", call |-> 0, selected |-> <<>>, outcome |-> Pending,
     choice |-> <<>>, confirm |-> <<>>, escaped |-> NoError]

NoEditor == [open |-> FALSE, text |-> <<>>]

cmdVars == <<cmd, editor, notes, outputs>>

panelVars == <<currentPanel, created, instances, open, revealed, btnDisabled, inbox, handlers>>

uiVars == <<panelVars, cmdVars>>

hostVars == <<calls, uiVars>>

HostInit ==
    /\ calls = [c \in CallIds |-> IdleCall]
    /\ currentPanel = 0
    /\ created = 0
    /\ instances = {}
    /\ open = {}
    /\ revealed = 0
    /\ btnDisabled = [p \in PanelIds |-> FALSE]
    /\ inbox = [p \in PanelIds |-> <<>>]
    /\ handlers = [h \in CallIds |-> FreeHandler]
    /\ cmd = IdleCmd
    /\ editor = NoEditor
    /\ notes = <<>>
    /\ outputs = <<>>

svcVars == <<settings, pc, config, rawPrompt, sent, response, body, raised, outcome>>

vars == <<svcVars, hostVars>>

Init ==
    /\ settings \in SettingsSet
    /\ pc = "idle"
    /\ config = NoConfig
    /\ rawPrompt = <<>>
    /\ sent = <<>>
    /\ response = NoResponse
    /\ body = NoBody
    /\ raised = NoError
    /\ outcome = Pending
    /\ HostInit

\* refactorPrompt(raw), up to the await of fetch
Call(raw) ==
    /\ pc = "idle"
    /\ LET cfg == GetConfig(settings) IN
       /\ config' = cfg
       /\ rawPrompt' = raw
       /\ IF KeyMissing(cfg.apiKey)
          THEN /\ sent' = <<>>
               /\ outcome' = Threw(LLMError(NoKeyMessage, "NO_API_KEY"))
               /\ pc' = "done"
          ELSE /\ sent' = <<FetchRequest(cfg, raw)>>
               /\ outcome' = Pending
               /\ pc' = "fetch"
    /\ UNCHANGED <<settings, response, body, raised>>
    /\ UNCHANGED hostVars

\* fetch rejects
FetchRejects(e) ==
    /\ pc = "fetch"
    /\ raised' = e
    /\ outcome' = Threw(Catch(e))
    /\ pc' = "done"
    /\ UNCHANGED <<settings, config, rawPrompt, sent, response, body>>
    /\ UNCHANGED hostVars

\* fetch resolves with a response: the checks of its status
FetchResolves(r) ==
    /\ pc = "fetch"
    /\ response' = r
    /\ LET e == StatusStage(r) IN
       IF e # NoError
       THEN /\ raised' = e
            /\ outcome' = Threw(Catch(e))
            /\ pc' = "done"
       ELSE /\ pc' = "body"
            /\ UNCHANGED <<raised, outcome>>
    /\ UNCHANGED <<settings, config, rawPrompt, sent, body>>
    /\ UNCHANGED hostVars

\* response.text() or response.json() settles: the rest of the try block
BodyArrives(b) ==
    /\ pc = "body"
    /\ body' = b
    /\ LET c == BodyStage(response, b) IN
       /\ raised' = c.error
       /\ outcome' = IF c.kind = "throw" THEN Threw(Catch(c.error)) ELSE c
    /\ pc' = "done"
    /\ UNCHANGED <<settings, config, rawPrompt, sent, response>>
    /\ UNCHANGED hostVars

\* the caller has the call's result: nothing of the call is retained
Return ==
    /\ pc = "done"
    /\ pc' = "idle"
    /\ config' = NoConfig
    /\ rawPrompt' = <<>>
    /\ sent' = <<>>
    /\ response' = NoResponse
    /\ body' = NoBody
    /\ raised' = NoError
    /\ outcome' = Pending
    /\ UNCHANGED settings
    /\ UNCHANGED hostVars

\* the user edits the settings
ChangeSettings(s) ==
    /\ s # settings
    /\ settings' = s
    /\ UNCHANGED <<pc, config, rawPrompt, sent, response, body, raised, outcome>>
    /\ UNCHANGED hostVars

Next ==
    \/ \E raw \in RawPrompts : Call(raw)
    \/ \E e \in Rejections : FetchRejects(e)
    \/ \E r \in Responses : FetchResolves(r)
    \/ \E b \in Bodies : BodyArrives(b)
    \/ Return
    \/ \E s \in SettingsSet : ChangeSettings(s)

Spec == Init /\ [][Next]_vars

\* ------------------------------------------------------- concurrent calls
\* const config = this.getConfig(): the config a starting call works with,
\* given the settings and the calls there are
ReadConfigCached(s, cs) ==
    IF \E d \in DOMAIN cs : cs[d].pc # "idle"
    THEN cs[CHOOSE d \in DOMAIN cs : cs[d].pc # "idle"].config
    ELSE GetConfig(s)

ReadConfig(s, cs) == GetConfig(s)

\* OwnResponse that reads a response kept on the shared llmService object:
\* the one of the call that resolved, whichever it is
SharedResponse(cs, c) ==
    IF \E d \in DOMAIN cs : d # c /\ cs[d].response # NoResponse
    THEN cs[CHOOSE d \in DOMAIN cs : d # c /\ cs[d].response # NoResponse].response
    ELSE cs[c].response

\* the local `response` of call c
OwnResponse(cs, c) == cs[c].response

\* The locals of a call after refactorPrompt(raw) has run up to the await of
\* fetch
Started(cfg, raw) ==
    IF KeyMissing(cfg.apiKey)
    THEN [IdleCall EXCEPT !.pc = "done", !.raw = raw, !.config = cfg,
                          !.outcome = Threw(LLMError(NoKeyMessage, "NO_API_KEY"))]
    ELSE [IdleCall EXCEPT !.pc = "fetch", !.raw = raw, !.config = cfg,
                          !.sent = <<FetchRequest(cfg, raw)>>]

\* ... after fetch has rejected with e
AfterReject(rec, e) ==
    [rec EXCEPT !.pc = "done", !.raised = e, !.outcome = Threw(Catch(e))]

\* ... after fetch has resolved with r
AfterResponse(rec, r) ==
    IF StatusStage(r) # NoError
    THEN [rec EXCEPT !.pc = "done", !.response = r, !.raised = StatusStage(r),
                     !.outcome = Threw(Catch(StatusStage(r)))]
    ELSE [rec EXCEPT !.pc = "body", !.response = r]

\* ... after the read of the body of resp has settled with b
AfterBody(rec, resp, b) ==
    LET c == BodyStage(resp, b) IN
    [rec EXCEPT !.pc = "done", !.body = b, !.raised = c.error,
                !.outcome = IF c.kind = "throw" THEN Threw(Catch(c.error)) ELSE c]

\* llmService.refactorPrompt(raw) is called while other calls are in flight
Invoke(c, raw) ==
    /\ calls[c].pc = "idle"
    /\ calls' = [calls EXCEPT ![c] = Started(ReadConfig(settings, calls), raw)]
    /\ UNCHANGED <<svcVars, uiVars>>

InvokeRejects(c, e) ==
    /\ calls[c].pc = "fetch"
    /\ calls' = [calls EXCEPT ![c] = AfterReject(calls[c], e)]
    /\ UNCHANGED <<svcVars, uiVars>>

InvokeResolves(c, r) ==
    /\ calls[c].pc = "fetch"
    /\ calls' = [calls EXCEPT ![c] = AfterResponse(calls[c], r)]
    /\ UNCHANGED <<svcVars, uiVars>>

InvokeBodyArrives(c, b) ==
    /\ calls[c].pc = "body"
    /\ calls' = [calls EXCEPT ![c] = AfterBody(calls[c], OwnResponse(calls, c), b)]
    /\ UNCHANGED <<svcVars, uiVars>>

\* the caller has the result of call c
InvokeReturns(c) ==
    /\ calls[c].pc = "done"
    /\ calls' = [calls EXCEPT ![c] = IdleCall]
    /\ UNCHANGED <<svcVars, uiVars>>

\* The inputs of the concurrent calls
ConcPrompts == {<<"a">>, <<" ", "\"">>}
ConcRejections == {Foreign("TypeError", <<"fetch", " failed">>)}
ConcResponses ==
    {[status |-> 200, retryAfter |-> NoHeader],
     [status |-> 500, retryAfter |-> NoHeader]}
ConcBodies ==
    {BodyOf(<<"server exploded">>, JInvalid),
     BodyOf(<<"{json}">>, JObj(EAbsent, ChArray(<<Choice(CStr(ImprovedText))>>)))}

NextConc ==
    \/ \E c \in CallIds, raw \in ConcPrompts : Invoke(c, raw)
    \/ \E c \in CallIds, e \in ConcRejections : InvokeRejects(c, e)
    \/ \E c \in CallIds, r \in ConcResponses : InvokeResolves(c, r)
    \/ \E c \in CallIds, b \in ConcBodies : InvokeBodyArrives(c, b)
    \/ \E c \in CallIds : InvokeReturns(c)
    \/ \E s \in SettingsSet : ChangeSettings(s)

SpecConc == Init /\ [][NextConc]_vars

\* ------------------------------------------------------------------- panel
\* ShouldCreate that never looks at currentPanel
AlwaysCreate(cur) == TRUE

\* createOrShow: no panel exists yet (if (PromptLintPanel.currentPanel) fails)
ShouldCreate(cur) == cur = 0

\* the command promptlint.openPanel: PromptLintPanel.createOrShow
CreateOrShow ==
    /\ IF ShouldCreate(currentPanel)
       THEN /\ created < MaxPanels
            /\ created' = created + 1
            /\ currentPanel' = created + 1
            /\ instances' = instances \cup {created + 1}
            /\ open' = open \cup {created + 1}
            /\ UNCHANGED revealed
       ELSE /\ revealed' = currentPanel
            /\ revealed # currentPanel
            /\ UNCHANGED <<created, currentPanel, instances, open>>
    /\ UNCHANGED <<svcVars, cmdVars, calls, btnDisabled, inbox, handlers>>

\* the user closes the tab of panel p: the host disposes the webview panel
ClosePanel(p) ==
    /\ p \in open
    /\ open' = open \ {p}
    /\ btnDisabled' = [btnDisabled EXCEPT ![p] = FALSE]
    /\ inbox' = [inbox EXCEPT ![p] = <<>>]
    /\ UNCHANGED <<svcVars, cmdVars, calls, currentPanel, created, instances, revealed, handlers>>

\* onDidDispose of panel p fires: PromptLintPanel.dispose.  The message
\* listener goes with the disposables, so messages still on their way are
\* never handled.
Dispose(p) ==
    /\ p \in instances
    /\ p \notin open
    /\ currentPanel' = 0
    /\ instances' = instances \ {p}
    /\ revealed' = IF revealed = p THEN 0 ELSE revealed
    /\ handlers' = [h \in CallIds |->
                      IF handlers[h].panel = p /\ handlers[h].pc = "queued"
                      THEN FreeHandler ELSE handlers[h]]
    /\ UNCHANGED <<svcVars, cmdVars, calls, created, open, btnDisabled, inbox>>

\* webview.postMessage for each of msgs, on panel p: a webview that is
\* closed gets nothing
Deliver(inb, opn, p, msgs) == IF p \in opn THEN [inb EXCEPT ![p] = @ \o msgs] ELSE inb

\* The webview script: a click on Refactor (or Ctrl/Cmd+Enter, which clicks
\* it) with `value` in the input box posts a refactor message
WebviewClick(p, value, h) ==
    /\ p \in open
    /\ ~btnDisabled[p]
    /\ Len(inbox[p]) <= MaxPending
    /\ Trim(value) # <<>>
    /\ handlers[h].pc = "free"
    /\ calls[h].pc = "idle"
    /\ handlers' = [handlers EXCEPT ![h] = [FreeHandler EXCEPT !.pc = "queued", !.panel = p,
                                                               !.text = Trim(value)]]
    /\ UNCHANGED <<svcVars, cmdVars, calls, currentPanel, created, instances, open, revealed,
                   btnDisabled, inbox>>

\* The webview script: the listener of the messages of the extension
WebviewReceives(p) ==
    /\ p \in open
    /\ inbox[p] # <<>>
    /\ inbox' = [inbox EXCEPT ![p] = Tail(@)]
    /\ btnDisabled' = IF Head(inbox[p]).command = "loading"
                      THEN [btnDisabled EXCEPT ![p] = Head(inbox[p]).isLoading]
                      ELSE btnDisabled
    /\ UNCHANGED <<svcVars, cmdVars, calls, currentPanel, created, instances, open, revealed, handlers>>

PleaseEnterMessage == <<"Please enter a prompt to refactor.">>
UnexpectedMessage == <<"An unexpected error occurred.">>

\* PanelSettled with the return of the NO_API_KEY branch leaving the function
\* before the loading state is cleared
PanelSettledEarlyReturn(out) ==
    IF out.kind = "return"
    THEN [posts |-> <<ResultMsg(out.value), LoadingMsg(FALSE)>>, escaped |-> NoError]
    ELSE IF out.error.cls = "LLMError" /\ out.error.code = "NO_API_KEY"
    THEN [posts |-> <<ErrorMsg(out.error.message, TRUE)>>, escaped |-> NoError]
    ELSE IF out.error.cls = "LLMError"
    THEN [posts |-> <<ErrorMsg(out.error.message, FALSE), LoadingMsg(FALSE)>>, escaped |-> NoError]
    ELSE [posts |-> <<ErrorMsg(UnexpectedMessage, FALSE), LoadingMsg(FALSE)>>, escaped |-> NoError]

\* PanelSettled with a catch that handles the missing key only
PanelSettledRethrow(out) ==
    IF out.kind = "return"
    THEN [posts |-> <<ResultMsg(out.value), LoadingMsg(FALSE)>>, escaped |-> NoError]
    ELSE IF out.error.cls = "LLMError" /\ out.error.code = "NO_API_KEY"
    THEN [posts |-> <<ErrorMsg(out.error.message, TRUE), LoadingMsg(FALSE)>>, escaped |-> NoError]
    ELSE [posts |-> <<LoadingMsg(FALSE)>>, escaped |-> out.error]

\* handleRefactor from the settling of refactorPrompt on (try, catch,
\* finally): the messages it posts and the error that leaves it
PanelSettled(out) ==
    IF out.kind = "return"
    THEN [posts |-> <<ResultMsg(out.value), LoadingMsg(FALSE)>>, escaped |-> NoError]
    ELSE IF out.error.cls = "LLMError" /\ out.error.code = "NO_API_KEY"
    THEN [posts |-> <<ErrorMsg(out.error.message, TRUE), LoadingMsg(FALSE)>>, escaped |-> NoError]
    ELSE IF out.error.cls = "LLMError"
    THEN [posts |-> <<ErrorMsg(out.error.message, FALSE), LoadingMsg(FALSE)>>, escaped |-> NoError]
    ELSE [posts |-> <<ErrorMsg(UnexpectedMessage, FALSE), LoadingMsg(FALSE)>>, escaped |-> NoError]

\* handleMessage gets the refactor message of handler h: handleRefactor up to
\* the await of refactorPrompt
HandlerStart(h) ==
    /\ handlers[h].pc = "queued"
    /\ IF Trim(handlers[h].text) = <<>>
       THEN /\ handlers' = [handlers EXCEPT ![h].pc = "finished",
                                            ![h].posted = <<ErrorMsg(PleaseEnterMessage, FALSE)>>]
            /\ inbox' = Deliver(inbox, open, handlers[h].panel,
                                <<ErrorMsg(PleaseEnterMessage, FALSE)>>)
            /\ UNCHANGED calls
       ELSE /\ handlers' = [handlers EXCEPT ![h].pc = "awaiting",
                                            ![h].posted = <<LoadingMsg(TRUE)>>]
            /\ inbox' = Deliver(inbox, open, handlers[h].panel, <<LoadingMsg(TRUE)>>)
            /\ calls' = [calls EXCEPT ![h] = Started(ReadConfig(settings, calls),
                                                      handlers[h].text)]
    /\ UNCHANGED <<svcVars, cmdVars, currentPanel, created, instances, open, revealed, btnDisabled>>

\* refactorPrompt has settled for handler h: the rest of handleRefactor
HandlerFinish(h) ==
    /\ handlers[h].pc = "awaiting"
    /\ calls[h].pc = "done"
    /\ LET r == PanelSettled(calls[h].outcome) IN
       /\ handlers' = [handlers EXCEPT ![h].pc = "finished",
                                       ![h].posted = @ \o r.posts,
                                       ![h].outcome = calls[h].outcome,
                                       ![h].escaped = r.escaped]
       /\ inbox' = Deliver(inbox, open, handlers[h].panel, r.posts)
    /\ calls' = [calls EXCEPT ![h] = IdleCall]
    /\ UNCHANGED <<svcVars, cmdVars, currentPanel, created, instances, open, revealed, btnDisabled>>

\* nothing refers to the finished invocation h any more
HandlerGone(h) ==
    /\ handlers[h].pc = "finished"
    /\ handlers' = [handlers EXCEPT ![h] = FreeHandler]
    /\ UNCHANGED <<svcVars, cmdVars, calls, currentPanel, created, instances, open, revealed,
                   btnDisabled, inbox>>

\* The inputs of the host
WebTexts == {<<" ">>, <<" ", "fix my prompt", " ">>}
HostRejections == {Foreign("TypeError", <<"fetch", " failed">>)}
HostResponses ==
    {[status |-> 200, retryAfter |-> NoHeader],
     [status |-> 401, retryAfter |-> NoHeader],
     [status |-> 429, retryAfter |-> Header(<<"3", "0">>)]}
HostBodies ==
    {BodyOf(<<"{json}">>, JObj(EAbsent, ChArray(<<>>))),
     BodyOf(<<"{json}">>, JObj(EAbsent, ChArray(<<Choice(CStr(ImprovedText))>>)))}

\* ----------------------------------------------------------------- command
NoEditorMessage == <<"No active editor found. Please open a file first.">>
PleaseSelectMessage == <<"Please select some text to refactor.">>
RefactoredMessage == <<"Prompt refactored successfully! What would you like to do?">>
ConfirmMessage == <<"This will replace your selected text. Continue?">>
ReplacedMessage == <<"Prompt replaced successfully!">>
CopiedMessage == <<"Refactored prompt copied to clipboard!">>
Options == {<<"Replace Selection">>, <<"Open in New Tab">>, <<"Copy to Clipboard">>}
Dismissed == <<>>

\* HandleError that shows every error of the service as an error
HandleErrorNoWarning(error) ==
    IF error.cls = "LLMError"
    THEN IF error.code = "NO_API_KEY"
         THEN Note("error", <<"PromptLint: ">> \o error.message, {<<"Open Settings">>})
         ELSE Note("error", <<"PromptLint: ">> \o error.message, {})
    ELSE Note("error", <<"PromptLint: An unexpected error occurred. ">> \o error.message, {})

\* handleError and showApiKeyError: the notification shown for `error`
HandleError(error) ==
    IF error.cls = "LLMError"
    THEN IF error.code = "NO_API_KEY"
         THEN Note("error", <<"PromptLint: ">> \o error.message, {<<"Open Settings">>})
         ELSE IF error.code = "RATE_LIMIT"
         THEN Note("warning", <<"PromptLint: ">> \o error.message, {})
         ELSE Note("error", <<"PromptLint: ">> \o error.message, {})
    ELSE Note("error", <<"PromptLint: An unexpected error occurred. ">> \o error.message, {})

\* The try and catch of the withProgress task: the notification shown for an
\* error of refactorPrompt and the error that leaves the task
CommandCatch(error) == [notes |-> <<HandleError(error)>>, escaped |-> NoError]

\* the user opens a file and selects `text` in it
OpenEditor(text) ==
    /\ ~editor.open
    /\ editor' = [open |-> TRUE, text |-> text]
    /\ UNCHANGED <<svcVars, calls, panelVars, cmd, notes, outputs>>

\* the command promptlint.refactorPrompt: handleRefactorSelectedPrompt up to
\* the await of refactorPrompt, whose call is c
CmdInvoke(c) ==
    /\ cmd.pc = "idle"
    /\ IF ~editor.open
       THEN /\ cmd' = IdleCmd
            /\ notes' = <<Note("warning", NoEditorMessage, {})>>
            /\ notes' # notes
            /\ UNCHANGED calls
       ELSE IF Trim(editor.text) = <<>>
       THEN /\ cmd' = IdleCmd
            /\ notes' = <<Note("warning", PleaseSelectMessage, {})>>
            /\ notes' # notes
            /\ UNCHANGED calls
       ELSE /\ calls[c].pc = "idle"
            /\ handlers[c].pc = "free"
            /\ cmd' = [IdleCmd EXCEPT !.pc = "awaiting", !.call = c, !.selected = editor.text]
            /\ notes' = <<>>
            /\ calls' = [calls EXCEPT ![c] = Started(ReadConfig(settings, calls), editor.text)]
    /\ outputs' = <<>>
    /\ UNCHANGED <<svcVars, panelVars, editor>>

\* refactorPrompt has settled for the command: the try and catch in the
\* withProgress task, up to the dialog of showRefactoredPrompt
CmdSettled ==
    /\ cmd.pc = "awaiting"
    /\ calls[cmd.call].pc = "done"
    /\ IF calls[cmd.call].outcome.kind = "return"
       THEN /\ cmd' = [cmd EXCEPT !.pc = "dialog", !.call = 0,
                                  !.outcome = calls[cmd.call].outcome]
            /\ notes' = Append(notes, Note("info", RefactoredMessage, Options))
       ELSE LET r == CommandCatch(calls[cmd.call].outcome.error) IN
            /\ cmd' = [cmd EXCEPT !.pc = "idle", !.call = 0,
                                  !.outcome = calls[cmd.call].outcome,
                                  !.escaped = r.escaped]
            /\ notes' = notes \o r.notes
    /\ calls' = [calls EXCEPT ![cmd.call] = IdleCall]
    /\ UNCHANGED <<svcVars, panelVars, editor, outputs>>

\* showRefactoredPrompt: the user answers the dialog with one of the three
\* options or dismisses it
CmdChoose(choice) ==
    /\ cmd.pc = "dialog"
    /\ IF choice = <<"Replace Selection">>
       THEN /\ cmd' = [cmd EXCEPT !.pc = "confirm", !.choice = choice]
            /\ notes' = Append(notes, Note("warning", ConfirmMessage, {<<"Yes, Replace">>}))
            /\ UNCHANGED outputs
       ELSE IF choice = <<"Open in New Tab">>
       THEN /\ cmd' = [cmd EXCEPT !.pc = "idle", !.choice = choice]
            /\ outputs' = Append(outputs, choice)
            /\ UNCHANGED notes
       ELSE IF choice = <<"Copy to Clipboard">>
       THEN /\ cmd' = [cmd EXCEPT !.pc = "idle", !.choice = choice]
            /\ outputs' = Append(outputs, choice)
            /\ notes' = Append(notes, Note("info", CopiedMessage, {}))
       ELSE /\ cmd' = [cmd EXCEPT !.pc = "idle", !.choice = choice]
            /\ UNCHANGED <<notes, outputs>>
    /\ UNCHANGED <<svcVars, calls, panelVars, editor>>

\* Confirmed that takes any answer, a dismissal too, for a yes
ConfirmedAlways(answer) == TRUE

\* replaceSelection: confirm === 'Yes, Replace'
Confirmed(answer) == answer = <<"Yes, Replace">>

\* replaceSelection: the user answers the modal confirmation
CmdConfirm(answer) ==
    /\ cmd.pc = "confirm"
    /\ cmd' = [cmd EXCEPT !.pc = "idle", !.confirm = answer]
    /\ IF Confirmed(answer)
       THEN /\ editor' = [editor EXCEPT !.text = cmd.outcome.value]
            /\ outputs' = Append(outputs, <<"Replace Selection">>)
            /\ notes' = Append(notes, Note("info", ReplacedMessage, {}))
       ELSE UNCHANGED <<editor, outputs, notes>>
    /\ UNCHANGED <<svcVars, calls, panelVars>>

Selections == {<<" ">>, <<"fix my prompt">>}

\* Both entry points side by side: the panel's requests one at a time through
\* the first call, the command's through the last
PanelCall == 1
CommandCall == MaxCalls

NextHost ==
    \/ CreateOrShow
    \/ \E p \in PanelIds : ClosePanel(p)
    \/ \E p \in PanelIds : Dispose(p)
    \/ \E p \in PanelIds, v \in WebTexts : WebviewClick(p, v, PanelCall)
    \/ \E p \in PanelIds : WebviewReceives(p)
    \/ HandlerStart(PanelCall)
    \/ HandlerFinish(PanelCall)
    \/ HandlerGone(PanelCall)
    \/ \E t \in Selections : OpenEditor(t)
    \/ CmdInvoke(CommandCall)
    \/ CmdSettled
    \/ \E ch \in Options \cup {Dismissed} : CmdChoose(ch)
    \/ \E a \in {<<"Yes, Replace">>, Dismissed} : CmdConfirm(a)
    \/ \E c \in CallIds, e \in HostRejections : InvokeRejects(c, e)
    \/ \E c \in CallIds, r \in HostResponses : InvokeResolves(c, r)
    \/ \E c \in CallIds, b \in HostBodies : InvokeBodyArrives(c, b)

SpecHost == Init /\ [][NextHost]_vars

NextCommand ==
    \/ \E t \in Selections : OpenEditor(t)
    \/ \E c \in CallIds : CmdInvoke(c)
    \/ CmdSettled
    \/ \E ch \in Options \cup {Dismissed} : CmdChoose(ch)
    \/ \E a \in {<<"Yes, Replace">>, Dismissed} : CmdConfirm(a)
    \/ \E c \in CallIds, e \in ConcRejections : InvokeRejects(c, e)
    \/ \E c \in CallIds, r \in ConcResponses : InvokeResolves(c, r)
    \/ \E c \in CallIds, b \in ConcBodies : InvokeBodyArrives(c, b)
    \/ \E s \in SettingsSet : ChangeSettings(s)

SpecCommand == Init /\ [][NextCommand]_vars

NextPanel ==
    \/ CreateOrShow
    \/ \E p \in PanelIds : ClosePanel(p)
    \/ \E p \in PanelIds : Dispose(p)
    \/ \E p \in PanelIds, v \in WebTexts, h \in CallIds : WebviewClick(p, v, h)
    \/ \E p \in PanelIds : WebviewReceives(p)
    \/ \E h \in CallIds : HandlerStart(h)
    \/ \E h \in CallIds : HandlerFinish(h)
    \/ \E h \in CallIds : HandlerGone(h)
    \/ \E c \in CallIds, e \in HostRejections : InvokeRejects(c, e)
    \/ \E c \in CallIds, r \in HostResponses : InvokeResolves(c, r)
    \/ \E c \in CallIds, b \in HostBodies : InvokeBodyArrives(c, b)

SpecPanel == Init /\ [][NextPanel]_vars

TypeOK ==
    /\ settings \in SettingsSet
    /\ pc \in {"idle", "fetch", "body", "done"}
    /\ outcome.kind \in {"none", "return", "throw"}

\* ------------------------------------------------------ terms of the claims
\* s is empty or holds only whitespace
Blank(s) == \A i \in 1..Len(s) : s[i] \in WhiteSpace

\* r is s without its leading and trailing whitespace
IsStripped(r, s) ==
    \E i \in 1..(Len(s) + 1) : \E j \in 0..Len(s) :
        /\ r = SubSeq(s, i, j)
        /\ \A k \in 1..(i - 1) : s[k] \in WhiteSpace
        /\ \A k \in (j + 1)..Len(s) : s[k] \in WhiteSpace
        /\ r # <<>> => (r[1] \notin WhiteSpace /\ r[Len(r)] \notin WhiteSpace)

\* What a JSON parser reads from the inside of a string literal
RECURSIVE Unescape(_)
Unescape(s) ==
    IF s = <<>> THEN [ok |-> TRUE, v |-> <<>>]
    ELSE IF Head(s) = "\"" THEN [ok |-> FALSE, v |-> <<>>]
    ELSE IF Head(s) = "\\" THEN
        IF Len(s) < 2 \/ s[2] \notin {"\"", "\\", "n", "t"} THEN [ok |-> FALSE, v |-> <<>>]
        ELSE LET rest == Unescape(SubSeq(s, 3, Len(s)))
                 c == CASE s[2] = "n" -> "\n" [] s[2] = "t" -> "\t" [] OTHER -> s[2]
             IN [ok |-> rest.ok, v |-> <<c>> \o rest.v]
    ELSE LET rest == Unescape(Tail(s)) IN [ok |-> rest.ok, v |-> <<Head(s)>> \o rest.v]

\* What the receiver of the request reads from a string literal of its body
JsonParseString(w) ==
    IF Len(w) < 2 \/ w[1] # "\"" \/ w[Len(w)] # "\"" THEN [ok |-> FALSE, v |-> <<>>]
    ELSE Unescape(SubSeq(w, 2, Len(w) - 1))

\* what the body holds at choices[0].message.content
FirstOf(data) ==
    IF data.t = "obj" /\ data.choices.t = "array" /\ Len(data.choices.items) >= 1
       /\ data.choices.items[1].t = "obj" /\ data.choices.items[1].message.t = "obj"
    THEN data.choices.items[1].message.content
    ELSE CAbsent

\* choices[0].message.content is absent or empty
NoContent(data) ==
    FirstOf(data).t \in {"absent", "null"} \/ FirstOf(data) = CStr(<<>>)

Failed(code) ==
    /\ outcome.kind = "throw"
    /\ outcome.error.cls = "LLMError"
    /\ outcome.error.code = code

\* the call got a 2xx response whose body was read and parsed to a value
\* other than null
ParsedOk == /\ pc = "done" /\ Ok(response.status)
            /\ ~body.readFails /\ body.json.t \in {"prim", "obj"}

\* ------------------------------------------------------------------ claims

\* C1: a call made with an empty or whitespace-only apiKey fails with
\* NO_API_KEY and issues no fetch request.
C1_BlankKeyFailsWithoutRequest ==
    (pc # "idle" /\ Blank(config.apiKey)) =>
        (pc = "done" /\ Failed("NO_API_KEY") /\ sent = <<>> /\ raised = NoError)

C1_Witness ==
    /\ pc = "done" /\ config.apiKey = <<" ", "\t">> /\ rawPrompt = <<"a", " ">>
    /\ Failed("NO_API_KEY") /\ sent = <<>>

\* C2 as stated: a 429 response yields RATE_LIMIT; with a retry-after header
\* of value N the message contains "in N seconds", without the header it says
\* "later".
C2_Original ==
    (pc = "done" /\ response.status = 429) =>
        /\ Failed("RATE_LIMIT")
        /\ response.retryAfter.present =>
             Includes(outcome.error.message,
                      <<"in ">> \o response.retryAfter.v \o <<" seconds">>)
        /\ ~response.retryAfter.present => Includes(outcome.error.message, <<"later">>)

\* C2 amended: a 429 response yields RATE_LIMIT and its body is never read;
\* with a retry-after header of non-empty value N the message contains
\* "in N seconds", and with the header absent or empty it says "later".
C2_RateLimit ==
    (pc = "done" /\ response.status = 429) =>
        /\ Failed("RATE_LIMIT")
        /\ body = NoBody
        /\ (response.retryAfter.present /\ response.retryAfter.v # <<>>) =>
             /\ Includes(outcome.error.message,
                         <<"in ">> \o response.retryAfter.v \o <<" seconds">>)
             /\ ~Includes(outcome.error.message, <<"later">>)
        /\ (~response.retryAfter.present \/ response.retryAfter.v = <<>>) =>
             /\ Includes(outcome.error.message, <<"later">>)
             /\ ~Includes(outcome.error.message, <<" seconds">>)

C2_Witness ==
    /\ pc = "done" /\ response.status = 429
    /\ response.retryAfter = Header(<<"3", "0">>)
    /\ Includes(outcome.error.message, <<"in ", "3", "0", " seconds">>)

\* C3: a 401 response yields NO_API_KEY without a read of its body, and the
\* message is not the one of the missing-key failure that precedes the request.
C3_Unauthorized ==
    /\ (pc = "done" /\ response.status = 401) =>
          /\ Failed("NO_API_KEY")
          /\ body = NoBody
          /\ outcome.error.message # NoKeyMessage
    /\ (pc = "done" /\ sent = <<>>) =>
          (Failed("NO_API_KEY") /\ outcome.error.message = NoKeyMessage)

C3_Witness ==
    /\ pc = "done" /\ response.status = 401 /\ sent # <<>>
    /\ Failed("NO_API_KEY") /\ outcome.error.message = InvalidKeyMessage

\* C4 as stated: a response whose status is not 2xx, 429 or 401 yields
\* API_ERROR with a message that holds the status code and the body text.
C4_Original ==
    (pc = "done" /\ response.status \notin {0, 401, 429} /\ ~Ok(response.status)) =>
        /\ Failed("API_ERROR")
        /\ Includes(outcome.error.message, NumToStr(response.status))
        /\ Includes(outcome.error.message, body.text)

\* C4 amended: a response whose status is not 2xx, 429 or 401 and whose body
\* text is read yields API_ERROR with a message that holds the status code
\* and the body text.
C4_HttpError ==
    (pc = "done" /\ response.status \notin {0, 401, 429} /\ ~Ok(response.status)
       /\ ~body.readFails) =>
        /\ Failed("API_ERROR")
        /\ Includes(outcome.error.message, NumToStr(response.status))
        /\ Includes(outcome.error.message, body.text)

C4_Witness ==
    /\ pc = "done" /\ response.status = 500 /\ body.text = <<"server exploded">>
    /\ Failed("API_ERROR")
    /\ Includes(outcome.error.message, <<"5", "0", "0">>)
    /\ Includes(outcome.error.message, <<"server exploded">>)

\* C5 as stated: a 2xx response whose JSON body holds an error object yields
\* API_ERROR, content or not, and the message is the embedded error message.
C5_Original ==
    (ParsedOk /\ body.json.error.t = "obj" /\ body.json.error.hasMessage) =>
        /\ Failed("API_ERROR")
        /\ outcome.error.message = body.json.error.message

\* C5 amended: a 2xx response whose JSON body holds an error object yields
\* API_ERROR, content or not, and the message is "API error: " followed by
\* the embedded error message.
C5_EmbeddedError ==
    (ParsedOk /\ body.json.error.t = "obj") =>
        /\ Failed("API_ERROR")
        /\ body.json.error.hasMessage =>
             outcome.error.message = <<"API error: ">> \o body.json.error.message

C5_Witness ==
    /\ ParsedOk /\ body.json.error = EObj(<<"boom">>)
    /\ FirstContent(body.json) = CStr(ImprovedText)
    /\ Failed("API_ERROR") /\ Includes(outcome.error.message, <<"boom">>)

\* C6: a 2xx response whose JSON body holds no error object and no content
\* at choices[0].message.content (no choices, empty choices, no message, no
\* or empty content, or a body that is no object, such as null) yields
\* INVALID_RESPONSE.
C6_NoContentIsInvalidResponse ==
    (pc = "done" /\ Ok(response.status) /\ ~body.readFails
       /\ body.json.t \in {"null", "prim", "obj"}
       /\ body.json.error.t # "obj" /\ NoContent(body.json)) =>
        Failed("INVALID_RESPONSE")

\* C7: a 2xx response with no error object and a non-empty string at
\* choices[0].message.content makes the call return that string without its
\* leading and trailing whitespace, whatever the later choices hold.
C7_ReturnsFirstContentTrimmed ==
    (ParsedOk /\ body.json.error.t # "obj"
       /\ FirstOf(body.json).t = "str" /\ FirstOf(body.json).v # <<>>) =>
        /\ outcome.kind = "return"
        /\ IsStripped(outcome.value, FirstOf(body.json).v)

C7_Witness ==
    /\ ParsedOk
    /\ body.json.choices = ChArray(<<Choice(CStr(<<"first", " ">>)), Choice(CStr(<<"second">>))>>)
    /\ outcome = Returned(<<"first">>)

C7_WitnessTrimmed ==
    /\ ParsedOk /\ response.status = 200
    /\ body.json.choices = ChArray(<<Choice(CStr(ImprovedText))>>)
    /\ outcome = Returned(<<"Improved text">>)

C8_WitnessParse ==
    /\ pc = "done" /\ raised.cls = "SyntaxError" /\ body.text = <<"server exploded">>
    /\ Failed("API_ERROR") /\ Includes(outcome.error.message, raised.message)

C8_WitnessClassified ==
    /\ pc = "done" /\ raised.cls = "LLMError" /\ raised.code = "INVALID_RESPONSE"
    /\ outcome.error = raised

\* C9: a call that fails throws an LLMError whose code is one of the five
\* kinds; nothing else leaves the call.
C9_OnlyClassifiedErrors ==
    pc = "done" =>
        /\ outcome.kind \in {"return", "throw"}
        /\ outcome.kind = "throw" =>
             (outcome.error.cls = "LLMError" /\ outcome.error.code \in ErrorCodes)
        /\ outcome.kind = "return" => outcome.error = NoError

C9_Witness ==
    /\ pc = "done" /\ raised = Foreign("NonError", <<"timeout">>)
    /\ outcome.kind = "throw" /\ outcome.error.cls = "LLMError"

\* C10: a call made with a non-blank apiKey issues one request whose body has
\* two messages, the system message with the fixed instruction and then the
\* user message, which a JSON parser reads back as the raw prompt, character
\* for character.
C10_RawPromptUnmodified ==
    (pc # "idle" /\ ~Blank(config.apiKey)) =>
        /\ Len(sent) = 1
        /\ LET m == sent[1].body.messages IN
           /\ Len(m) = 2
           /\ m[1].role = "system"
           /\ JsonParseString(m[1].content) = [ok |-> TRUE, v |-> SYSTEM_PROMPT]
           /\ m[2].role = "user"
           /\ JsonParseString(m[2].content) = [ok |-> TRUE, v |-> rawPrompt]

C10_Witness ==
    /\ pc = "fetch" /\ rawPrompt = <<" ", "\"">> /\ ~Blank(config.apiKey)
    /\ sent[1].body.messages[2].content = <<"\"", " ", "\\", "\"", "\"">>

\* The settings in effect: each value as set, or its documented fallback
Effective(s) ==
    [apiKey |-> IF s.apiKey.set THEN s.apiKey.v ELSE <<>>,
     apiEndpoint |-> IF s.apiEndpoint.set THEN s.apiEndpoint.v ELSE DefaultEndpoint,
     model |-> IF s.model.set THEN s.model.v ELSE DefaultModel,
     maxTokens |-> IF s.maxTokens.set THEN s.maxTokens.v ELSE DefaultMaxTokens]

\* the one request of rec was made of the values of cfg
RequestUses(rec, cfg) ==
    /\ Len(rec.sent) = 1
    /\ rec.sent[1].url = cfg.apiEndpoint
    /\ rec.sent[1].authorization = <<"Bearer ">> \o cfg.apiKey
    /\ JsonParseString(rec.sent[1].body.model) = [ok |-> TRUE, v |-> cfg.model]
    /\ rec.sent[1].body.max_tokens = cfg.maxTokens

\* C11: a call that starts works with the settings in effect at that moment,
\* whatever earlier calls worked with, and its request is made of them; a
\* later change of the settings leaves the call's config and request alone.
C11_ConfigReadFresh ==
    [][\A c \in CallIds :
         /\ (calls[c].pc = "idle" /\ calls'[c].pc # "idle") =>
              /\ calls'[c].config = Effective(settings)
              /\ calls'[c].sent # <<>> => RequestUses(calls'[c], Effective(settings))
         /\ (calls[c].pc # "idle" /\ calls'[c].pc # "idle") =>
              (calls'[c].config = calls[c].config /\ calls'[c].sent = calls[c].sent)]_vars

C11_Witness ==
    /\ calls[1].pc = "done" /\ calls[1].sent # <<>>
    /\ calls[1].sent[1].url = DefaultEndpoint
    /\ calls[2].pc = "fetch" /\ calls[2].config = Effective(settings)
    /\ calls[2].sent[1].url = <<"https://llm.example/v1">>
    /\ calls[2].sent[1].body.max_tokens = 256

\* What a call with the locals rec yields when it runs alone: a function of
\* its config, its raw prompt and what the network gave it
AloneOutcome(rec) ==
    IF Blank(rec.config.apiKey) THEN Threw(LLMError(NoKeyMessage, "NO_API_KEY"))
    ELSE IF rec.response = NoResponse THEN Threw(Catch(rec.raised))
    ELSE IF StatusStage(rec.response) # NoError THEN Threw(Catch(StatusStage(rec.response)))
    ELSE LET c == BodyStage(rec.response, rec.body) IN
         IF c.kind = "throw" THEN Threw(Catch(c.error)) ELSE c

\* The single call of Spec yields what AloneOutcome says
AloneAgrees ==
    pc = "done" =>
        outcome = AloneOutcome([config |-> config, raw |-> rawPrompt, raised |-> raised,
                                response |-> response, body |-> body])

\* C14: with several calls in flight, the outcome of each is what the call
\* yields alone from its own raw prompt, config and response, and its
\* request is made of its own raw prompt and config.
C14_CallsIndependent ==
    \A c \in CallIds :
        /\ calls[c].pc = "done" => calls[c].outcome = AloneOutcome(calls[c])
        /\ calls[c].sent # <<>> =>
             /\ RequestUses(calls[c], calls[c].config)
             /\ JsonParseString(calls[c].sent[1].body.messages[2].content)
                  = [ok |-> TRUE, v |-> calls[c].raw]

C14_Witness ==
    /\ calls[1].pc = "body" /\ calls[1].response.status = 500
    /\ calls[1].raw # calls[2].raw
    /\ calls[2].pc = "done" /\ calls[2].response.status = 200
    /\ calls[2].outcome = Returned(<<"Improved text">>)

\* C18 (as stated): whenever refactorPrompt returns, the text it returns is
\* not empty, whatever the response was.
C18_ReturnsNonEmpty ==
    (pc = "done" /\ outcome.kind = "return") => outcome.value # <<>>

\* --------------------------------------------------------- claims on the host
\* Handler h of the panel is over and its refactorPrompt threw
PanelFailed(h) == handlers[h].pc = "finished" /\ handlers[h].outcome.kind = "throw"

\* The command's run is over and its refactorPrompt threw
CommandFailed == cmd.pc = "idle" /\ cmd.outcome.kind = "throw"

\* C12: at both entry points an error raised by refactorPrompt is caught and
\* shown to the user as a message carrying the error's text, and no error
\* leaves the handler.
C12_ErrorsRecovered ==
    /\ \A h \in CallIds :
          /\ handlers[h].escaped = NoError
          /\ PanelFailed(h) =>
                \E i \in 1..Len(handlers[h].posted) :
                    /\ handlers[h].posted[i].command = "error"
                    /\ handlers[h].posted[i].text = handlers[h].outcome.error.message
    /\ cmd.escaped = NoError
    /\ CommandFailed =>
          \E i \in 1..Len(notes) :
              /\ notes[i].level \in {"warning", "error"}
              /\ Includes(notes[i].text, cmd.outcome.error.message)

C12_Witness ==
    /\ PanelFailed(PanelCall)
    /\ handlers[PanelCall].outcome.error.code = "INVALID_RESPONSE"
    /\ CommandFailed
    /\ cmd.outcome.error.code = "NETWORK_ERROR"

\* How the command surfaces a failed run: by the last notification it showed
CommandSurfacedAs(level, withSettings) ==
    /\ notes # <<>>
    /\ notes[Len(notes)].level = level
    /\ (<<"Open Settings">> \in notes[Len(notes)].actions) = withSettings

\* How the panel surfaces a failed request: by the one message it posted
\* between the two loading messages, whose command is its level
PanelSurfacedAs(h, level, withSettings) ==
    /\ Len(handlers[h].posted) = 3
    /\ handlers[h].posted[2].command = level
    /\ handlers[h].posted[2].showSettings = withSettings

\* C13 (as stated): at every entry point a NoApiKey error comes with the
\* action that opens the settings, a RateLimit error is a warning and every
\* other kind is an error.
C13_Original ==
    /\ CommandFailed =>
          IF cmd.outcome.error.code = "NO_API_KEY" THEN CommandSurfacedAs("error", TRUE)
          ELSE IF cmd.outcome.error.code = "RATE_LIMIT" THEN CommandSurfacedAs("warning", FALSE)
          ELSE CommandSurfacedAs("error", FALSE)
    /\ \A h \in CallIds : PanelFailed(h) =>
          IF handlers[h].outcome.error.code = "NO_API_KEY" THEN PanelSurfacedAs(h, "error", TRUE)
          ELSE IF handlers[h].outcome.error.code = "RATE_LIMIT"
          THEN PanelSurfacedAs(h, "warning", FALSE)
          ELSE PanelSurfacedAs(h, "error", FALSE)

\* C13 (amended): the command surfaces a NoApiKey error with the action that
\* opens the settings, a RateLimit error as a warning and every other kind
\* as an error; the panel posts every kind as an error message, a NoApiKey
\* error with the flag that offers the settings, a RateLimit error and every
\* other kind without it.
C13_SurfacedByKind ==
    /\ CommandFailed =>
          IF cmd.outcome.error.code = "NO_API_KEY" THEN CommandSurfacedAs("error", TRUE)
          ELSE IF cmd.outcome.error.code = "RATE_LIMIT" THEN CommandSurfacedAs("warning", FALSE)
          ELSE CommandSurfacedAs("error", FALSE)
    /\ \A h \in CallIds : PanelFailed(h) =>
          IF handlers[h].outcome.error.code = "NO_API_KEY" THEN PanelSurfacedAs(h, "error", TRUE)
          ELSE PanelSurfacedAs(h, "error", FALSE)

C13_Witness ==
    /\ PanelFailed(PanelCall)
    /\ handlers[PanelCall].outcome.error.code = "RATE_LIMIT"
    /\ CommandFailed
    /\ cmd.outcome.error.code = "RATE_LIMIT"

\* C15: at most one PromptLintPanel exists and it is currentPanel; a webview
\* panel is created only while currentPanel is undefined and becomes
\* currentPanel, createOrShow otherwise reveals the existing one; a panel
\* goes away only by dispose, which leaves currentPanel undefined.
C15_AtMostOnePanel ==
    /\ [](/\ Cardinality(instances) <= 1
          /\ instances = (IF currentPanel = 0 THEN {} ELSE {currentPanel})
          /\ (revealed # 0 => revealed = currentPanel))
    /\ [][(/\ (created' # created =>
                (currentPanel = 0 /\ currentPanel' = created' /\ created' \in instances'))
           /\ ((currentPanel # 0 /\ revealed' # revealed /\ revealed' # 0) =>
                (created' = created /\ revealed' = currentPanel))
           /\ ((instances' # instances /\ created' = created) =>
                (currentPanel' = 0 /\ instances' = {})))]_vars

C15_Witness ==
    /\ created = 2
    /\ currentPanel = 2
    /\ instances = {2}
    /\ revealed = 2

\* C16: for a refactor message with non-blank text the panel has posted
\* loading(true) while it awaits refactorPrompt and, once it is over,
\* loading(true), one result or error message, loading(false), in this
\* order, on every outcome.
C16_LoadingBracket ==
    \A h \in CallIds :
        /\ handlers[h].pc = "awaiting" => handlers[h].posted = <<LoadingMsg(TRUE)>>
        /\ (handlers[h].pc = "finished" /\ ~Blank(handlers[h].text)) =>
              /\ Len(handlers[h].posted) = 3
              /\ handlers[h].posted[1] = LoadingMsg(TRUE)
              /\ handlers[h].posted[2].command \in {"result", "error"}
              /\ handlers[h].posted[3] = LoadingMsg(FALSE)
              /\ handlers[h].posted[2].command = "result" <=> handlers[h].outcome.kind = "return"

C16_Witness ==
    /\ PanelFailed(PanelCall)
    /\ handlers[PanelCall].outcome.error.code = "NO_API_KEY"
    /\ handlers[PanelCall].posted[3] = LoadingMsg(FALSE)

\* C17: the text of the editor changes only in the step in which, after a
\* refactorPrompt that returned, the user who chose 'Replace Selection'
\* answers 'Yes, Replace', and it becomes the returned text; a run performs
\* at most one output action, and only after a refactorPrompt that returned.
C17_ReplaceOnlyOnConfirm ==
    [][/\ (editor.open /\ editor'.text # editor.text) =>
             /\ cmd.outcome.kind = "return"
             /\ cmd.choice = <<"Replace Selection">>
             /\ cmd'.confirm = <<"Yes, Replace">>
             /\ editor'.text = cmd.outcome.value
       /\ Len(outputs') <= 1
       /\ outputs' # <<>> => (cmd'.outcome.kind = "return" /\ outputs' = <<cmd'.choice>>)]_vars

C17_Witness ==
    /\ cmd.pc = "idle"
    /\ cmd.confirm = <<"Yes, Replace">>
    /\ editor.text = <<"Improved text">>
    /\ outputs = << <<"Replace Selection">> >>

\* C19 (as stated): the panel never has two refactorPrompt calls in flight at
\* once.
C19_OneCallInFlight ==
    \A p \in PanelIds :
        LET inFlight == {h \in CallIds : /\ handlers[h].panel = p
                                         /\ handlers[h].pc = "awaiting"
                                         /\ calls[h].pc \in {"fetch", "body"}}
        IN Cardinality(inFlight) <= 1

====
